---- MODULE Spec2Model ----
(***************************************************************************)
(* Model of packages/gitguard/gitguard-prepare.py: the prepare-commit-msg  *)
(* hook that groups the staged files by package, classifies the change     *)
(* types, and rewrites the commit-message file from an AI suggestion or    *)
(* from the deterministic formatter.                                       *)
(*                                                                         *)
(* Python strings are sequences of one-character strings, so that split,   *)
(* strip, lower, substring search and concatenation are computed, not      *)
(* assumed.  Python's None and the empty string are both the empty         *)
(* sequence where the code only tests truthiness.                          *)
(***************************************************************************)
EXTENDS Integers, Sequences, FiniteSets, TLC

VARIABLES
    pc,              \* position of main (or of the function under study)
    file,            \* content of the commit-message file
    file0,           \* content of the commit-message file when the run started
    writes,          \* number of times the commit-message file was written
    staged,          \* the staged paths, as version control knows them
    original_msg,    \* main: original_msg
    grouped,         \* get_changed_packages: the dict `packages` (insertion ordered)
    packages,        \* main: packages (list of name/scope/files/types records)
    asked,           \* the prompt_user calls so far: question, tty, response, result
    response,        \* what the completion service did for this run
    suggestions,     \* main: suggestions (None is "none")
    choice,          \* display_suggestions: choice (last line read, stripped)
    rounds,          \* display_suggestions: lines read so far
    chosen_message,  \* main: chosen_message
    main_type,       \* main: main_type / format_commit_message: commit_type argument
    new_msg,         \* main: new_msg
    again,           \* result of formatting new_msg a second time (formatter study)
    status,          \* process exit: "running", "exit0", "exit1", "returned"
    git_query,       \* `git diff --cached --name-only`: "pending", "ok", "failed"
    sel              \* display_suggestions: "idle", "awaiting", "skipped", "selected",
                     \* "raised" (IndexError), "eof" (EOFError from input)

vars == <<pc, file, file0, writes, staged, original_msg, grouped, packages, asked,
          response, suggestions, choice, rounds, chosen_message, main_type,
          new_msg, again, status, git_query, sel>>

----------------------------------------------------------------------------
(* Bounds of the model *)

\* longest staged listing explored by the collector study
MaxFiles == 3
\* most suggestion records in a well-formed AI response
MaxSuggestions == 4
\* most lines display_suggestions reads before the model stops exploring
MaxRounds == 2

----------------------------------------------------------------------------
(* Python string primitives *)

None == <<>>

Whitespace == {" ", "\n", "\t"}

UpperToLower ==
    [c \in {"A","B","C","D","E","F","G","H","I","J","K","L","M","N","O","P","Q",
            "R","S","T","U","V","W","X","Y","Z"} |->
       CASE c = "A" -> "a" [] c = "B" -> "b" [] c = "C" -> "c" [] c = "D" -> "d"
         [] c = "E" -> "e" [] c = "F" -> "f" [] c = "G" -> "g" [] c = "H" -> "h"
         [] c = "I" -> "i" [] c = "J" -> "j" [] c = "K" -> "k" [] c = "L" -> "l"
         [] c = "M" -> "m" [] c = "N" -> "n" [] c = "O" -> "o" [] c = "P" -> "p"
         [] c = "Q" -> "q" [] c = "R" -> "r" [] c = "S" -> "s" [] c = "T" -> "t"
         [] c = "U" -> "u" [] c = "V" -> "v" [] c = "W" -> "w" [] c = "X" -> "x"
         [] c = "Y" -> "y" [] c = "Z" -> "z"]

\* str.lower()
lower(s) == [i \in 1..Len(s) |-> IF s[i] \in DOMAIN UpperToLower
                                  THEN UpperToLower[s[i]] ELSE s[i]]

\* `pat in s`
Contains(s, pat) ==
    \E i \in 1..(Len(s) - Len(pat) + 1) : SubSeq(s, i, i + Len(pat) - 1) = pat

\* s.startswith(pat)
startswith(s, pat) == Len(s) >= Len(pat) /\ SubSeq(s, 1, Len(pat)) = pat

\* index of the first / last occurrence of character c in s, 0 when absent
FirstIndex(s, c) ==
    IF \E i \in 1..Len(s) : s[i] = c
    THEN CHOOSE i \in 1..Len(s) : s[i] = c /\ \A j \in 1..(i-1) : s[j] # c
    ELSE 0

LastIndex(s, c) ==
    IF \E i \in 1..Len(s) : s[i] = c
    THEN CHOOSE i \in 1..Len(s) : s[i] = c /\ \A j \in (i+1)..Len(s) : s[j] # c
    ELSE 0

\* s.strip()
strip(s) ==
    IF \A i \in 1..Len(s) : s[i] \in Whitespace THEN <<>>
    ELSE LET a == CHOOSE i \in 1..Len(s) :
                    s[i] \notin Whitespace /\ \A j \in 1..(i-1) : s[j] \in Whitespace
             b == CHOOSE i \in 1..Len(s) :
                    s[i] \notin Whitespace /\ \A j \in (i+1)..Len(s) : s[j] \in Whitespace
         IN SubSeq(s, a, b)

\* s.split(c): the list of the pieces between the occurrences of c
RECURSIVE split(_, _)
split(s, c) ==
    LET i == FirstIndex(s, c)
    IN IF i = 0 THEN <<s>>
       ELSE <<SubSeq(s, 1, i - 1)>> \o split(SubSeq(s, i + 1, Len(s)), c)

\* s.split(c, 1)
split1(s, c) ==
    LET i == FirstIndex(s, c)
    IN IF i = 0 THEN <<s>>
       ELSE <<SubSeq(s, 1, i - 1), SubSeq(s, i + 1, Len(s))>>

\* sep.join(list)
RECURSIVE join(_, _)
join(sep, list) ==
    IF list = <<>> THEN <<>>
    ELSE IF Len(list) = 1 THEN list[1]
    ELSE list[1] \o sep \o join(sep, Tail(list))

\* Path(file).name: the part after the last "/"
PathName(f) == SubSeq(f, LastIndex(f, "/") + 1, Len(f))

----------------------------------------------------------------------------
(* detect_change_types *)

test  == <<"t","e","s","t">>
docs  == <<"d","o","c","s">>
style == <<"s","t","y","l","e">>
chore == <<"c","h","o","r","e">>
fix   == <<"f","i","x">>
feat  == <<"f","e","a","t">>

TestPatterns  == { <<".","t","e","s","t",".">>, <<".","s","p","e","c",".">>,
                   <<"/","t","e","s","t","s","/">> }
DocsPatterns  == { <<".","m","d">>, <<"r","e","a","d","m","e">>,
                   <<"d","o","c","s","/">> }
StylePatterns == { <<".","c","s","s">>, <<".","s","c","s","s">>,
                   <<".","s","t","y","l","e","d",".">> }
ChorePatterns == { <<"p","a","c","k","a","g","e",".","j","s","o","n">>,
                   <<".","c","o","n","f","i","g",".">>,
                   <<"t","s","c","o","n","f","i","g">> }
FixWords      == { <<"f","i","x">>, <<"b","u","g">>, <<"p","a","t","c","h">> }

is_test(f)  == \E p \in TestPatterns  : Contains(lower(f), p)
is_docs(f)  == \E p \in DocsPatterns  : Contains(lower(f), p)
is_style(f) == \E p \in StylePatterns : Contains(lower(f), p)
is_chore(f) == \E p \in ChorePatterns : Contains(lower(PathName(f)), p)
is_fix(f)   == \E w \in FixWords      : Contains(lower(f), w)

\* Mutant: the fix keywords are tested before the test markers.
file_types_fix_first(f, types) ==
    IF is_fix(f) THEN types \cup {fix}
    ELSE IF is_test(f) THEN types \cup {test}
    ELSE IF is_docs(f) THEN types \cup {docs}
    ELSE IF is_style(f) THEN types \cup {style}
    ELSE IF is_chore(f) THEN types \cup {chore}
    ELSE types

\* Mutant: a file that matches no category adds feat itself.
file_types_feat_each(f, types) ==
    IF is_test(f) THEN types \cup {test}
    ELSE IF is_docs(f) THEN types \cup {docs}
    ELSE IF is_style(f) THEN types \cup {style}
    ELSE IF is_chore(f) THEN types \cup {chore}
    ELSE IF is_fix(f) THEN types \cup {fix}
    ELSE types \cup {feat}

\* body of the loop: the if/elif chain adds at most one label to `types`
file_types(f, types) ==
    IF is_test(f) THEN types \cup {test}
    ELSE IF is_docs(f) THEN types \cup {docs}
    ELSE IF is_style(f) THEN types \cup {style}
    ELSE IF is_chore(f) THEN types \cup {chore}
    ELSE IF is_fix(f) THEN types \cup {fix}
    ELSE types

RECURSIVE detect_loop(_, _)
detect_loop(files, types) ==
    IF files = <<>> THEN types
    ELSE detect_loop(Tail(files), file_types(Head(files), types))

detect_change_types(files) ==
    LET types == detect_loop(files, {})
    IN IF types = {} THEN {feat} ELSE types

----------------------------------------------------------------------------
(* get_changed_packages *)

root         == <<"r","o","o","t">>
packages_dir == <<"p","a","c","k","a","g","e","s","/">>

\* what `git diff --cached --name-only` prints: one path per line
RECURSIVE git_diff_name_only(_)
git_diff_name_only(paths) ==
    IF paths = <<>> THEN <<>>
    ELSE Head(paths) \o <<"\n">> \o git_diff_name_only(Tail(paths))

\* changed_files.decode('utf-8').strip().split('\n')
changed_files_of(output) == split(strip(output), "\n")

\* Mutant: the package key is the whole directory of the file.
pkg_key_dirname(f) ==
    IF startswith(f, packages_dir)
    THEN SubSeq(f, 1, LastIndex(f, "/") - 1)
    ELSE root

\* the dict key a file is stored under
pkg_key(f) ==
    IF startswith(f, packages_dir)
    THEN packages_dir \o split(f, "/")[2]
    ELSE root

\* packages[key].append(file), creating the entry on first use
dict_append(d, key, f) ==
    IF \E i \in 1..Len(d) : d[i].key = key
    THEN [i \in 1..Len(d) |->
            IF d[i].key = key THEN [d[i] EXCEPT !.files = Append(@, f)] ELSE d[i]]
    ELSE Append(d, [key |-> key, files |-> <<f>>])

RECURSIVE group_loop(_, _)
group_loop(changed_files, d) ==
    IF changed_files = <<>> THEN d
    ELSE LET f == Head(changed_files)
         IN IF f = <<>>
            THEN group_loop(Tail(changed_files), d)
            ELSE group_loop(Tail(changed_files), dict_append(d, pkg_key(f), f))

\* s.split('/')[-1]
last_segment(s) == LET parts == split(s, "/") IN parts[Len(parts)]

\* one element of `results`; pkg_name is get_package_json_name's answer
package_record(entry, pkg_name) ==
    LET name  == IF entry.key = root THEN root
                 ELSE IF pkg_name # None THEN pkg_name
                 ELSE last_segment(entry.key)
        scope == IF entry.key = root THEN root
                 ELSE IF pkg_name # None THEN last_segment(pkg_name)
                 ELSE last_segment(entry.key)
    IN [name |-> name, scope |-> scope, files |-> entry.files,
        types |-> detect_change_types(entry.files)]

\* the names get_package_json_name can find in a package's package.json
DeclaredNames == { None, <<"@","o","r","g","/","c","o","r","e">> }

get_changed_packages(d, manifest) ==
    [i \in 1..Len(d) |-> package_record(d[i], manifest[i])]

----------------------------------------------------------------------------
(* format_commit_message *)

\* the text before the first ":" of a message that has one
type_part_of(m) == split1(m, ":")[1]

\* commit_type as taken from the message's own prefix
declared_type(m) ==
    LET type_part == type_part_of(m)
    IN IF Contains(type_part, <<"(">>) /\ Contains(type_part, <<")">>)
       THEN split(type_part, "(")[1]
       ELSE type_part

\* msg: the text after the first ":", stripped
declared_msg(m) == strip(split1(m, ":")[2])

\* Mutant: a commit_type given by the caller wins over the message's own type.
format_commit_message_default_wins(m, package, commit_type, first_type) ==
    LET msg == IF Contains(m, <<":">>) THEN declared_msg(m) ELSE m
        ct  == IF commit_type # None THEN commit_type
               ELSE IF Contains(m, <<":">>) THEN declared_type(m)
               ELSE first_type
    IN ct \o <<"(">> \o package.scope \o <<")", ":", " ">> \o msg

\* first_type is what next(iter(package['types'])) yields
format_commit_message(m, package, commit_type, first_type) ==
    LET msg == IF Contains(m, <<":">>) THEN declared_msg(m) ELSE m
        ct  == IF Contains(m, <<":">>) THEN declared_type(m)
               ELSE IF commit_type = None THEN first_type
               ELSE commit_type
    IN ct \o <<"(">> \o package.scope \o <<")", ":", " ">> \o msg

----------------------------------------------------------------------------
(* prompt_user *)

\* Mutant: the answer is compared with "no" instead of "n".
prompt_user_no(tty, line) ==
    IF ~tty THEN TRUE
    ELSE LET r == lower(strip(line)) IN r = <<>> \/ r # <<"n","o">>

\* tty: /dev/tty can be opened and read; line: what tty.readline() returns
prompt_user(tty, line) ==
    IF ~tty THEN TRUE
    ELSE LET r == lower(strip(line)) IN r = <<>> \/ r # <<"n">>

\* the lines a user types at a [Y/n] prompt
PromptLines == { <<"\n">>, <<"y","\n">>, <<"n","\n">>, <<" ","N"," ","\n">>,
                 <<"n","o","\n">> }

----------------------------------------------------------------------------
(* get_ai_suggestion and display_suggestions *)

Digits == <<"1","2","3","4","5","6","7","8","9">>

SuggestionFields == {"message", "explanation", "type", "scope", "description"}

\* the k-th record of a well-formed response; `keys` are the keys the JSON
\* object has
Suggestion(k) ==
    [keys        |-> SuggestionFields,
     message     |-> <<"f","i","x","(","x",")",":"," ">> \o <<Digits[k]>>,
     explanation |-> <<"w","h","y">>,
     type        |-> fix,
     scope       |-> <<"x">>,
     description |-> <<Digits[k]>>]

WellFormed(n) == [i \in 1..n |-> Suggestion(i)]

\* what the completion service can do
Responses ==
    { [kind |-> k, has_suggestions |-> FALSE, suggestions |-> <<>>] :
        k \in {"no_client", "transport_error", "invalid_json", "not_an_object",
               "object"} }
    \cup { [kind |-> "object", has_suggestions |-> TRUE, suggestions |-> WellFormed(n)] :
             n \in 0..MaxSuggestions }
    \cup { [kind |-> "object", has_suggestions |-> TRUE,
            suggestions |-> << [Suggestion(1) EXCEPT !.keys = SuggestionFields \ {f}] >>] :
             f \in SuggestionFields }
    \cup { [kind |-> "object", has_suggestions |-> TRUE,
            suggestions |-> << [Suggestion(1) EXCEPT !.message = <<>>] >>] }

\* HAS_OPENAI false, an exception in the try block, or result.get('suggestions', [])
get_ai_suggestion(resp) ==
    IF resp.kind # "object" THEN None
    ELSE IF resp.has_suggestions THEN resp.suggestions
    ELSE <<>>

\* the keys display_suggestions reads of every record before it prompts
PrintedFields == {"message", "type", "scope", "explanation"}

\* the lines a user types at the "Choose suggestion" prompt
ChoiceLines ==
    { <<>>, <<"x">>, <<" ","2"," ">> }
    \cup { <<Digits[k]>> : k \in 1..(MaxSuggestions + 1) }

\* int(choice) for the choices the loop accepts
int_of(c) == CHOOSE k \in 1..3 : <<Digits[k]>> = c

AcceptedChoices == { <<"1">>, <<"2">>, <<"3">> }

----------------------------------------------------------------------------
(* main *)

Merge == <<"M","e","r","g","e">>

\* except Exception: sys.exit(1)
on_exception_exit0 == "exit0"

on_exception == "exit1"

\* main_pkg = packages[0]
primary_last(pkgs) == pkgs[Len(pkgs)]

primary(pkgs) == pkgs[1]

\* '\n\nAffected packages:\n' + '\n'.join(f"- {p['name']}" for p in packages)
affected_packages(pkgs) ==
    <<"\n","\n","A","f","f","e","c","t","e","d"," ","p","a","c","k","a","g","e","s",
      ":","\n">>
    \o join(<<"\n">>, [i \in 1..Len(pkgs) |-> <<"-"," ">> \o pkgs[i].name])

----------------------------------------------------------------------------
(* Inputs *)

f_index   == <<"p","a","c","k","a","g","e","s","/","a","p","i","/","s","r","c","/",
               "i","n","d","e","x",".","t","s">>
f_readme  == <<"R","E","A","D","M","E",".","m","d">>
f_fixtest == <<"s","r","c","/","f","e","a","t","u","r","e","/","f","i","x",".",
               "t","e","s","t",".","t","s">>
f_button  == <<"p","a","c","k","a","g","e","s","/","u","i","/","B","u","t","t","o",
               "n",".","c","s","s">>
f_pkgjson == <<"p","a","c","k","a","g","e","s","/","a","p","i","/","p","a","c","k",
               "a","g","e",".","j","s","o","n">>
f_bugfix  == <<"p","a","c","k","a","g","e","s","/","a","p","i","/","l","i","b","/",
               "b","u","g","f","i","x",".","t","s">>
f_deep    == <<"p","a","c","k","a","g","e","s","/","u","i","/","a","/","b","/","c",
               ".","t","s">>

PathPool == { f_index, f_readme, f_fixtest, f_button, f_pkgjson, f_bugfix, f_deep }

\* every listing of at most MaxFiles distinct paths: the collector study's inputs
Listings ==
    { l \in UNION { [1..n -> PathPool] : n \in 0..MaxFiles } :
        \A i, j \in 1..Len(l) : i # j => l[i] # l[j] }

\* the staged listings of the runs of main
RunListings ==
    { <<>>,
      <<f_index, f_readme>>,
      <<f_bugfix, f_pkgjson>>,
      <<f_button>>,
      <<f_readme, f_pkgjson, f_fixtest>> }

\* the commit-message files of the runs of main
FileContents ==
    { <<" ","a","d","d"," ","l","o","g","i","n"," ","\n">>,
      <<"M","e","r","g","e"," ","m","a","i","n","\n">>,
      <<"f","i","x","(","a","u","t","h",")",":"," ","r","e","t","r","y","\n">>,
      <<"w","i","p",":"," ","a",":","b","\n">> }

NoResponse == [kind |-> "none", has_suggestions |-> FALSE, suggestions |-> <<>>]

\* what every run starts from, but for its inputs
Fresh ==
    /\ file0 = file
    /\ writes = 0
    /\ original_msg = <<>>
    /\ grouped = <<>>
    /\ packages = <<>>
    /\ asked = <<>>
    /\ response = NoResponse
    /\ suggestions = None
    /\ choice = <<>>
    /\ rounds = 0
    /\ chosen_message = None
    /\ main_type = None
    /\ new_msg = None
    /\ again = None
    /\ status = "running"
    /\ git_query = "pending"
    /\ sel = "idle"

Init ==
    /\ pc = "start"
    /\ file \in FileContents
    /\ staged \in RunListings
    /\ Fresh

----------------------------------------------------------------------------
(* The steps of main, from one blocking point to the next *)

\* an exception reaches `except Exception` of main
Raise ==
    /\ pc' = "done"
    /\ status' = on_exception

\* lines 290-297: read the commit-message file, leave on a merge commit
ReadMessage ==
    /\ pc = "start"
    /\ \E readable \in BOOLEAN :
         IF ~readable
         THEN /\ Raise
              /\ UNCHANGED original_msg
         ELSE /\ original_msg' = strip(file)
              /\ IF startswith(strip(file), Merge)
                 THEN pc' = "done" /\ status' = "exit0"
                 ELSE pc' = "collect" /\ UNCHANGED status
    /\ UNCHANGED <<file, file0, writes, staged, grouped, packages, asked, response,
                   suggestions, choice, rounds, chosen_message, main_type, new_msg,
                   again, git_query, sel>>

\* lines 299-301 and get_changed_packages; check_output raises when git fails
Collect ==
    /\ pc = "collect"
    /\ \E git_fails \in BOOLEAN :
         IF git_fails
         THEN /\ Raise
              /\ git_query' = "failed"
              /\ UNCHANGED <<grouped, packages>>
         ELSE LET changed_files == changed_files_of(git_diff_name_only(staged))
                  d == group_loop(changed_files, <<>>)
              IN \E manifest \in [1..Len(d) -> DeclaredNames] :
                   /\ \A i \in 1..Len(d) : d[i].key = root => manifest[i] = None
                   /\ git_query' = "ok"
                   /\ grouped' = d
                   /\ packages' = get_changed_packages(d, manifest)
                   /\ IF d = <<>>
                      THEN pc' = "done" /\ status' = "exit0"
                      ELSE pc' = "ask_ai" /\ UNCHANGED status
    /\ UNCHANGED <<file, file0, writes, staged, original_msg, asked, response,
                   suggestions, choice, rounds, chosen_message, main_type, new_msg,
                   again, sel>>

\* line 316: prompt_user('Would you like AI suggestions?')
AskAI ==
    /\ pc = "ask_ai"
    /\ \E tty \in BOOLEAN, line \in PromptLines :
         /\ ~tty => line = <<"\n">>
         /\ asked' = Append(asked, [question |-> "ai", tty |-> tty, line |-> line,
                                    result |-> prompt_user(tty, line)])
         /\ pc' = IF prompt_user(tty, line) THEN "ai" ELSE "fallback"
    /\ UNCHANGED <<file, file0, writes, staged, original_msg, grouped, packages,
                   response, suggestions, choice, rounds, chosen_message, main_type,
                   new_msg, again, status, git_query, sel>>

\* lines 317-322: get_ai_suggestion, then display_suggestions up to its prompt
GetSuggestions ==
    /\ pc = "ai"
    /\ \E resp \in Responses :
         /\ response' = resp
         /\ suggestions' = get_ai_suggestion(resp)
         /\ IF get_ai_suggestion(resp) = <<>>
            THEN pc' = "fallback" /\ UNCHANGED <<status, sel>>
            ELSE IF \E i \in 1..Len(resp.suggestions) :
                       ~(PrintedFields \subseteq resp.suggestions[i].keys)
            THEN Raise /\ UNCHANGED sel
            ELSE pc' = "select" /\ sel' = "awaiting" /\ UNCHANGED status
    /\ UNCHANGED <<file, file0, writes, staged, original_msg, grouped, packages,
                   asked, choice, rounds, chosen_message, main_type, new_msg, again,
                   git_query>>

\* lines 280-286 and 323-327: one line read by display_suggestions, and what
\* main does with the value it returns
Choose ==
    /\ pc = "select"
    /\ rounds < MaxRounds
    /\ rounds' = rounds + 1
    /\ \E eof \in BOOLEAN, line \in ChoiceLines :
         /\ eof => line = <<>>
         /\ IF eof
            THEN /\ Raise
                 /\ sel' = "eof"
                 /\ UNCHANGED <<choice, chosen_message, file, writes>>
            ELSE /\ choice' = strip(line)
                 /\ IF strip(line) = <<>>
                    THEN /\ sel' = "skipped"
                         /\ pc' = "fallback"
                         /\ UNCHANGED <<chosen_message, file, writes, status>>
                    ELSE IF strip(line) \in AcceptedChoices
                    THEN IF int_of(strip(line)) > Len(suggestions)
                         THEN /\ Raise
                              /\ sel' = "raised"
                              /\ UNCHANGED <<chosen_message, file, writes>>
                         ELSE LET m == suggestions[int_of(strip(line))].message
                              IN /\ sel' = "selected"
                                 /\ chosen_message' = m
                                 /\ IF m # <<>>
                                    THEN /\ file' = m
                                         /\ writes' = writes + 1
                                         /\ pc' = "done"
                                         /\ status' = "returned"
                                    ELSE /\ pc' = "fallback"
                                         /\ UNCHANGED <<file, writes, status>>
                    ELSE /\ sel' = "awaiting"
                         /\ UNCHANGED <<pc, chosen_message, file, writes, status>>
    /\ UNCHANGED <<file0, staged, original_msg, grouped, packages, asked, response,
                   suggestions, main_type, new_msg, again, git_query>>

\* lines 330-340: the deterministic message
Fallback ==
    /\ pc = "fallback"
    /\ \E first_type \in primary(packages).types :
         /\ main_type' = first_type
         /\ new_msg' =
              LET header == format_commit_message(original_msg, primary(packages),
                                                  first_type, first_type)
              IN IF Len(packages) > 1
                 THEN header \o affected_packages(packages)
                 ELSE header
    /\ pc' = "confirm"
    /\ UNCHANGED <<file, file0, writes, staged, original_msg, grouped, packages,
                   asked, response, suggestions, choice, rounds, chosen_message,
                   again, status, git_query, sel>>

\* lines 342-345: prompt_user('Use suggested message?') and the write
Confirm ==
    /\ pc = "confirm"
    /\ \E tty \in BOOLEAN, line \in PromptLines :
         /\ ~tty => line = <<"\n">>
         /\ asked' = Append(asked, [question |-> "use", tty |-> tty, line |-> line,
                                    result |-> prompt_user(tty, line)])
         /\ IF prompt_user(tty, line)
            THEN file' = new_msg /\ writes' = writes + 1
            ELSE UNCHANGED <<file, writes>>
    /\ pc' = "done"
    /\ status' = "returned"
    /\ UNCHANGED <<file0, staged, original_msg, grouped, packages, response,
                   suggestions, choice, rounds, chosen_message, main_type, new_msg,
                   again, git_query, sel>>

Next ==
    \/ ReadMessage
    \/ Collect
    \/ AskAI
    \/ GetSuggestions
    \/ Choose
    \/ Fallback
    \/ Confirm

Spec == Init /\ [][Next]_vars

----------------------------------------------------------------------------
(* The collector and the classifier alone, over every listing *)

InitCollect ==
    /\ pc = "collect"
    /\ file = <<"a","d","d","\n">>
    /\ staged \in Listings
    /\ Fresh

NextCollect == Collect

SpecCollect == InitCollect /\ [][NextCollect]_vars

----------------------------------------------------------------------------
(* The formatter alone: format a message, then format the result again *)

FormTypes  == { feat, fix, <<"x",":","y">> }
FormScopes == { <<"a","u","t","h">>, <<"a",":","b">> }
FormDescs  == { <<"r","e","t","r","y">>, <<"a",":"," ","b"," ">>, <<"(","x",")">> }

\* "type(scope): description"
Conventional(t, s, d) == t \o <<"(">> \o s \o <<")", ":", " ">> \o d

FormatMessages ==
    { Conventional(t, s, d) : t \in FormTypes, s \in FormScopes, d \in FormDescs }
    \cup { <<"a","d","d"," ","l","o","g","i","n">>, <<"w","i","p",":"," ","x">> }

FormatPackages ==
    { [name |-> <<"a","p","i">>, scope |-> <<"a","p","i">>,
       files |-> <<f_index>>, types |-> {feat}],
      [name |-> <<"a",":","b">>, scope |-> <<"a",":","b">>,
       files |-> <<f_fixtest, f_bugfix>>, types |-> {test, fix}] }

DefaultTypes == { None, feat, chore }

InitFormat ==
    /\ pc = "format"
    /\ file = <<"a","d","d","\n">>
    /\ file0 = file
    /\ writes = 0
    /\ staged = <<>>
    /\ original_msg \in FormatMessages
    /\ grouped = <<>>
    /\ packages \in { <<p>> : p \in FormatPackages }
    /\ asked = <<>>
    /\ response = NoResponse
    /\ suggestions = None
    /\ choice = <<>>
    /\ rounds = 0
    /\ chosen_message = None
    /\ main_type \in DefaultTypes
    /\ new_msg = None
    /\ again = None
    /\ status = "running"
    /\ git_query = "pending"
    /\ sel = "idle"

Format ==
    /\ pc = "format"
    /\ \E first_type \in packages[1].types :
         new_msg' = format_commit_message(original_msg, packages[1], main_type,
                                          first_type)
    /\ pc' = "formatted"
    /\ UNCHANGED <<file, file0, writes, staged, original_msg, grouped, packages,
                   asked, response, suggestions, choice, rounds, chosen_message,
                   main_type, again, status, git_query, sel>>

Reformat ==
    /\ pc = "formatted"
    /\ \E first_type \in packages[1].types :
         again' = format_commit_message(new_msg, packages[1], main_type, first_type)
    /\ pc' = "reformatted"
    /\ UNCHANGED <<file, file0, writes, staged, original_msg, grouped, packages,
                   asked, response, suggestions, choice, rounds, chosen_message,
                   main_type, new_msg, status, git_query, sel>>

NextFormat ==
    \/ Format
    \/ Reformat

SpecFormat == InitFormat /\ [][NextFormat]_vars

----------------------------------------------------------------------------
(* Properties *)

\* the user typed "n" at every prompt_user call made so far
DeclinedEveryPrompt ==
    \A i \in 1..Len(asked) : asked[i].tty /\ lower(strip(asked[i].line)) = <<"n">>

\* the last prompt_user call was 'Use suggested message?' and it returned True
AcceptedSuggested ==
    /\ asked # <<>>
    /\ asked[Len(asked)].question = "use"
    /\ asked[Len(asked)].result

BadResponse ==
    \/ response.kind \in {"transport_error", "invalid_json", "not_an_object"}
    \/ response.kind = "object" /\ ~response.has_suggestions
    \/ /\ response.kind = "object"
       /\ \E i \in 1..Len(response.suggestions) :
            \E f \in {"message", "type", "scope", "explanation"} :
                f \notin response.suggestions[i].keys

\* C2: a malformed AI response, a transport failure or an exception during the
\* external call yields no suggestions, main goes to the fallback formatter,
\* and the run does not end with status 1.
C2_MalformedResponseFallsBack ==
    BadResponse =>
        /\ suggestions = None
        /\ sel = "idle"
        /\ status # "exit1"
        /\ pc \in {"fallback", "confirm", "done"}

\* C3: with n suggestions, an empty line returns no selection, a line that is
\* an index k with 1 <= k <= n returns the k-th message, and every other line
\* re-prompts without an error.
C3_SelectorByIndex ==
    (rounds > 0 /\ sel # "eof" /\ suggestions = WellFormed(Len(suggestions))) =>
        LET n == Len(suggestions)
            valid == \E k \in 1..n : choice = <<Digits[k]>>
        IN /\ choice = <<>> => sel = "skipped" /\ chosen_message = None
           /\ \A k \in 1..n :
                choice = <<Digits[k]>> =>
                    sel = "selected" /\ chosen_message = suggestions[k].message
           /\ (choice # <<>> /\ ~valid) => sel = "awaiting" /\ status = "running"

\* where path f sits in the staged listing
PosInStaged(f) == CHOOSE k \in 1..Len(staged) : staged[k] = f

\* the places (package, index) where path f is filed
Places(f) ==
    { <<i, j>> \in (1..Len(grouped)) \X (1..Len(staged)) :
        j <= Len(grouped[i].files) /\ grouped[i].files[j] = f }

\* f is "packages/<X>/..." and key is "packages/<X>"
IsPackageKeyOf(key, f) ==
    \E n \in (Len(packages_dir) + 1)..Len(f) :
        /\ f[n] = "/"
        /\ \A m \in (Len(packages_dir) + 1)..(n - 1) : f[m] # "/"
        /\ key = SubSeq(f, 1, n - 1)

\* C4: get_changed_packages partitions the staged listing: every path is in
\* exactly one package; "packages/<X>/..." goes under key "packages/<X>", the
\* other paths under the one key "root"; packages come in order of first
\* occurrence of their key and files keep the order of the listing.
C4_CollectorPartitions ==
    git_query = "ok" =>
        /\ \A k \in 1..Len(staged) : Cardinality(Places(staged[k])) = 1
        /\ \A i \in 1..Len(grouped) :
             /\ grouped[i].files # <<>>
             /\ \A j \in 1..Len(grouped[i].files) :
                  LET f == grouped[i].files[j]
                  IN /\ \E k \in 1..Len(staged) : staged[k] = f
                     /\ IF startswith(f, packages_dir)
                        THEN IsPackageKeyOf(grouped[i].key, f)
                        ELSE grouped[i].key = root
             /\ \A a, b \in 1..Len(grouped[i].files) :
                  a < b => PosInStaged(grouped[i].files[a])
                             < PosInStaged(grouped[i].files[b])
        /\ \A i, j \in 1..Len(grouped) :
             /\ i # j => grouped[i].key # grouped[j].key
             /\ i < j => PosInStaged(grouped[i].files[1])
                           < PosInStaged(grouped[j].files[1])
        /\ Len(packages) = Len(grouped)
        /\ \A i \in 1..Len(packages) : packages[i].files = grouped[i].files

\* a listing whose first path is outside packages/, then two paths of one
\* package at different depths: root comes first, the package second
C4_Witness ==
    /\ git_query = "ok"
    /\ Len(staged) = 3
    /\ Len(grouped) = 2
    /\ grouped[1].key = root
    /\ grouped[2].files = <<f_button, f_deep>>

\* the category of a file under the fixed order test, docs, style, chore, fix
HasLabel(f, label) ==
    CASE label = test  -> is_test(f)
      [] label = docs  -> ~is_test(f) /\ is_docs(f)
      [] label = style -> ~is_test(f) /\ ~is_docs(f) /\ is_style(f)
      [] label = chore -> ~is_test(f) /\ ~is_docs(f) /\ ~is_style(f) /\ is_chore(f)
      [] label = fix   -> ~is_test(f) /\ ~is_docs(f) /\ ~is_style(f) /\ ~is_chore(f)
                          /\ is_fix(f)

Categories == { test, docs, style, chore, fix }

Labelled(f) == \E label \in Categories : HasLabel(f, label)

FilesOf(p) == { p.files[j] : j \in 1..Len(p.files) }

\* C5: each file gives at most one label, the first category it matches in the
\* order test, docs, style, chore, fix (a test file with a fix keyword gives
\* test, never fix), and a package's types hold a category label exactly when
\* one of its files gives it.
C5_FirstMatchingCategory ==
    \A i \in 1..Len(packages) :
        /\ \A label \in Categories :
             label \in packages[i].types
                <=> \E f \in FilesOf(packages[i]) : HasLabel(f, label)
        /\ Len(packages[i].files) = 1 => Cardinality(packages[i].types) = 1

\* a package holding only a test file whose path has the fix keyword
C5_Witness ==
    \E i \in 1..Len(packages) :
        /\ packages[i].files = <<f_fixtest>>
        /\ is_fix(f_fixtest)
        /\ packages[i].types = {test}

\* C6: the types of a package are a non-empty set of labels; they are {feat}
\* exactly when no file matches a category, and feat never stands next to
\* another label.
C6_FeatOnlyAsDefault ==
    \A i \in 1..Len(packages) :
        LET T == packages[i].types
        IN /\ T # {}
           /\ T \subseteq Categories \cup {feat}
           /\ T = {feat} <=> \A f \in FilesOf(packages[i]) : ~Labelled(f)
           /\ feat \in T => T = {feat}

\* a package with a file that matches no category next to one that does
C6_Witness ==
    \E i \in 1..Len(packages) :
        /\ \E f \in FilesOf(packages[i]) : ~Labelled(f)
        /\ \E f \in FilesOf(packages[i]) : Labelled(f)
        /\ feat \notin packages[i].types

\* the "- {name}" lines, each after a line break
RECURSIVE NameLines(_)
NameLines(pkgs) ==
    IF pkgs = <<>> THEN <<>>
    ELSE <<"\n", "-", " ">> \o Head(pkgs).name \o NameLines(Tail(pkgs))

\* the header the fallback builds from the first package
ExpectedHeader ==
    LET open  == <<"(">> \o packages[1].scope \o <<")", ":", " ">>
    IN IF Contains(original_msg, <<":">>)
       THEN declared_type(original_msg) \o open \o declared_msg(original_msg)
       ELSE main_type \o open \o original_msg

\* C7: the fallback message is the header built from the first package (its
\* scope, a type of its types set), alone when there is one package, and
\* otherwise followed by a blank line, "Affected packages:" and one "- name"
\* line per package in collector order; without ":" in the original message
\* the header is "{type}({scope}): {original message}".
C7_FallbackMessage ==
    new_msg # None =>
        /\ main_type \in packages[1].types
        /\ new_msg =
             IF Len(packages) > 1
             THEN ExpectedHeader
                  \o <<"\n","\n","A","f","f","e","c","t","e","d"," ","p","a","c","k",
                       "a","g","e","s",":">>
                  \o NameLines(packages)
             ELSE ExpectedHeader

\* a fallback message for two packages and an original message without ":"
C7_Witness ==
    /\ pc = "confirm"
    /\ new_msg # None
    /\ Len(packages) = 2
    /\ packages[1].name # packages[1].scope
    /\ ~Contains(original_msg, <<":">>)

\* what the round trip says of a message "t(s): d"
RoundTrips(t, d) ==
    /\ pc \in {"formatted", "reformatted"} =>
         /\ new_msg = t \o <<"(">> \o packages[1].scope \o <<")", ":", " ">> \o strip(d)
         /\ declared_type(new_msg) = t
         /\ declared_msg(new_msg) = strip(d)
    /\ pc = "reformatted" => again = new_msg

\* C8 as stated: for every message "type(scope): description", every package
\* and every default type, the formatter keeps the type and the description,
\* they can be extracted again from the result, and formatting the result
\* again returns it unchanged.
C8_RoundTripAnyScope ==
    \A t \in FormTypes, s \in FormScopes, d \in FormDescs :
        original_msg = Conventional(t, s, d) => RoundTrips(t, d)

\* C8 amended: the same, for messages whose type and scope have no ":" and
\* packages whose scope has no ":".
C8_RoundTripColonFreeScope ==
    \A t \in FormTypes, s \in FormScopes, d \in FormDescs :
        ( /\ original_msg = Conventional(t, s, d)
          /\ ~Contains(t, <<":">>)
          /\ ~Contains(s, <<":">>)
          /\ ~Contains(packages[1].scope, <<":">>) ) => RoundTrips(t, d)

\* "fix(auth): a: b " formatted twice for package api with default type feat
C8_Witness ==
    /\ pc = "reformatted"
    /\ original_msg = Conventional(fix, <<"a","u","t","h">>, <<"a",":"," ","b"," ">>)
    /\ packages[1].scope = <<"a","p","i">>
    /\ main_type = feat
    /\ again = new_msg

\* C9 as stated: a failure of the staged-files query ends the run with exit
\* status 0, without a prompt and without a write.
C9_QueryFailureExitsZero ==
    git_query = "failed" =>
        /\ status = "exit0"
        /\ asked = <<>>
        /\ file = file0

\* C9 amended: a failure of the staged-files query ends the run with exit
\* status 1, without a prompt and without a write; only an empty listing ends
\* it with status 0.
C9_QueryFailureExitsOne ==
    /\ git_query = "failed" =>
         /\ pc = "done"
         /\ status = "exit1"
         /\ asked = <<>>
         /\ writes = 0
         /\ file = file0
    /\ (git_query = "ok" /\ packages = <<>>) =>
         /\ pc = "done"
         /\ status = "exit0"
         /\ asked = <<>>
         /\ file = file0

\* the staged-files query failed for a commit that is no merge
C9_Witness ==
    /\ git_query = "failed"
    /\ pc = "done"
    /\ staged # <<>>
    /\ original_msg # <<>>

\* the label of the earliest file of the list that matches a category
RECURSIVE FirstInserted(_)
FirstInserted(files) ==
    IF files = <<>> THEN feat
    ELSE IF Labelled(Head(files))
         THEN CHOOSE label \in Categories : HasLabel(Head(files), label)
         ELSE FirstInserted(Tail(files))

\* C10: when the primary package has more than one label and the fallback
\* uses its default type (the original message declares none), the type is the
\* label of the earliest file of that package that matches a category, and so
\* is the type of the fallback message.
C10_FirstInsertedType ==
    ( /\ new_msg # None
      /\ Cardinality(packages[1].types) > 1
      /\ ~Contains(original_msg, <<":">>) ) =>
        /\ main_type = FirstInserted(packages[1].files)
        /\ startswith(new_msg, FirstInserted(packages[1].files) \o <<"(">>)

====
